---- MODULE Spec2Model ----
(***************************************************************************)
(* Model of src/qbg/properties.rs: the QBG construction-parameter builder  *)
(* (QbgConstructParams<T>), the QBG build-parameter builder                *)
(* (QbgBuildParams), the three #[repr(i32)] enums with their               *)
(* TryFromPrimitive decoding, and the caller's use of them under Rust move *)
(* semantics (every method takes `self` by value).                         *)
(***************************************************************************)
EXTENDS Integers, Sequences, FiniteSets, TLC

(***************************************************************************)
(* Bounds of the model.                                                    *)
(***************************************************************************)
\* Width in bits of the model's `usize` (the real one is 32 or 64 bits).
WordBits == 11
\* Largest number of override / clone calls made on one builder.
MaxCalls == 2
\* Integer codes handed to try_from range over -MaxCode .. MaxCode.
MaxCode == 7

RECURSIVE Pow2(_)
Pow2(n) == IF n = 0 THEN 1 ELSE 2 * Pow2(n - 1)

WordModulus == Pow2(WordBits)
usize_MAX == WordModulus - 1

\* a moved-out binding, an absent value
None == [none |-> TRUE]
\* the outcome of a call: it panicked, or it returned a value
Panic == [panic |-> TRUE]
Returned(v) == [panic |-> FALSE, value |-> v]

(***************************************************************************)
(* Enumerations and their integer codes.                                   *)
(***************************************************************************)
QbgObject == {"Uint8", "Float", "Float16"}

QbgObject_as_i32(v) ==
    CASE v = "Uint8" -> 0
      [] v = "Float" -> 1
      [] v = "Float16" -> 2

QbgDistance == {"L2"}

\* A variant of QbgDistance_as_i32: the discriminant written as 0.
QbgDistance_as_i32_from_zero(v) ==
    CASE v = "L2" -> 0

QbgDistance_as_i32(v) ==
    CASE v = "L2" -> 1

QbgClusteringInitMode ==
    {"Head", "Random", "KmeansPlusPlus", "RandomFixedSeed",
     "KmeansPlusPlusFixedSeed", "Best"}

QbgClusteringInitMode_as_i32(v) ==
    CASE v = "Head" -> 0
      [] v = "Random" -> 1
      [] v = "KmeansPlusPlus" -> 2
      [] v = "RandomFixedSeed" -> 3
      [] v = "KmeansPlusPlusFixedSeed" -> 4
      [] v = "Best" -> 5

\* #[derive(TryFromPrimitive)]: the variant whose discriminant is the number,
\* an error carrying the number when there is none.
Ok(v) == [ok |-> TRUE, value |-> v]
TryFromPrimitiveError(n) == [ok |-> FALSE, number |-> n]

QbgObject_try_from(n) ==
    IF \E v \in QbgObject : QbgObject_as_i32(v) = n
    THEN Ok(CHOOSE v \in QbgObject : QbgObject_as_i32(v) = n)
    ELSE TryFromPrimitiveError(n)

QbgDistance_try_from(n) ==
    IF \E v \in QbgDistance : QbgDistance_as_i32(v) = n
    THEN Ok(CHOOSE v \in QbgDistance : QbgDistance_as_i32(v) = n)
    ELSE TryFromPrimitiveError(n)

QbgClusteringInitMode_try_from(n) ==
    IF \E v \in QbgClusteringInitMode : QbgClusteringInitMode_as_i32(v) = n
    THEN Ok(CHOOSE v \in QbgClusteringInitMode : QbgClusteringInitMode_as_i32(v) = n)
    ELSE TryFromPrimitiveError(n)

EnumKinds == {"QbgObject", "QbgDistance", "QbgClusteringInitMode"}

Variants(kind) ==
    CASE kind = "QbgObject" -> QbgObject
      [] kind = "QbgDistance" -> QbgDistance
      [] kind = "QbgClusteringInitMode" -> QbgClusteringInitMode

as_i32(kind, v) ==
    CASE kind = "QbgObject" -> QbgObject_as_i32(v)
      [] kind = "QbgDistance" -> QbgDistance_as_i32(v)
      [] kind = "QbgClusteringInitMode" -> QbgClusteringInitMode_as_i32(v)

try_from(kind, n) ==
    CASE kind = "QbgObject" -> QbgObject_try_from(n)
      [] kind = "QbgDistance" -> QbgDistance_try_from(n)
      [] kind = "QbgClusteringInitMode" -> QbgClusteringInitMode_try_from(n)

(***************************************************************************)
(* The sealed set of element representations and QbgObjectType::as_obj.    *)
(***************************************************************************)
ElementTypes == {"f32", "u8", "f16"}

\* A variant of as_obj: the f16 impl copied from the f32 one unchanged.
as_obj_f16_as_float(T) ==
    CASE T = "f32" -> "Float"
      [] T = "u8" -> "Uint8"
      [] T = "f16" -> "Float"

as_obj(T) ==
    CASE T = "f32" -> "Float"
      [] T = "u8" -> "Uint8"
      [] T = "f16" -> "Float16"

(***************************************************************************)
(* QbgConstructParams<T>.                                                  *)
(***************************************************************************)
\* x + 15 on usize: a panic where the build checks overflow (debug profile),
\* the wrapped sum where it does not (release profile).
next_multiple_of_16(x, overflow_checks) ==
    IF x + 15 > usize_MAX /\ overflow_checks
    THEN Panic
    ELSE Returned((((x + 15) % WordModulus) \div 16) * 16)

QbgConstructParams_dimension(T, dimension, overflow_checks) ==
    LET extended_dimension == next_multiple_of_16(dimension, overflow_checks)
    IN  IF extended_dimension.panic
        THEN Panic
        ELSE Returned([extended_dimension |-> extended_dimension.value,
                       dimension |-> dimension,
                       number_of_subvectors |-> 1,
                       number_of_blobs |-> 0,
                       internal_data_type |-> as_obj(T),
                       data_type |-> as_obj(T),
                       distance_type |-> "L2",
                       marker |-> T])

Error(extended_dimension) ==
    [ok |-> FALSE,
     message |-> "Invalid extended_dimension: {}, must be a multiple of 16 greater or equal to dimension",
     shown |-> extended_dimension]

\* A variant of QbgConstructParams_extended_dimension: > in place of >=.
QbgConstructParams_extended_dimension_strict(self, extended_dimension) ==
    IF extended_dimension % 16 = 0 /\ extended_dimension > self.dimension
    THEN Ok([self EXCEPT !.extended_dimension = extended_dimension])
    ELSE Error(extended_dimension)

QbgConstructParams_extended_dimension(self, extended_dimension) ==
    IF extended_dimension % 16 = 0 /\ extended_dimension >= self.dimension
    THEN Ok([self EXCEPT !.extended_dimension = extended_dimension])
    ELSE Error(extended_dimension)

QbgConstructParams_number_of_subvectors(self, number_of_subvectors) ==
    [self EXCEPT !.number_of_subvectors = number_of_subvectors]

QbgConstructParams_number_of_blobs(self, number_of_blobs) ==
    [self EXCEPT !.number_of_blobs = number_of_blobs]

\* A variant of QbgConstructParams_internal_data_type: data_type follows it.
QbgConstructParams_internal_data_type_both(self, internal_data_type) ==
    [self EXCEPT !.internal_data_type = internal_data_type,
                 !.data_type = internal_data_type]

QbgConstructParams_internal_data_type(self, internal_data_type) ==
    [self EXCEPT !.internal_data_type = internal_data_type]

QbgConstructParams_distance_type(self, distance_type) ==
    [self EXCEPT !.distance_type = distance_type]

\* The struct literal of sys::QBGConstructionParameters, field by field in the
\* order it is written.
Field(name, value) == [field |-> name, value |-> value]

\* A variant of QbgConstructParams_into_raw: the two dimensions exchanged.
QbgConstructParams_into_raw_exchanged(self) ==
    << Field("extended_dimension", self.dimension),
       Field("dimension", self.extended_dimension),
       Field("number_of_subvectors", self.number_of_subvectors),
       Field("number_of_blobs", self.number_of_blobs),
       Field("internal_data_type", QbgObject_as_i32(self.internal_data_type)),
       Field("data_type", QbgObject_as_i32(self.data_type)),
       Field("distance_type", QbgDistance_as_i32(self.distance_type)) >>

QbgConstructParams_into_raw(self) ==
    << Field("extended_dimension", self.extended_dimension),
       Field("dimension", self.dimension),
       Field("number_of_subvectors", self.number_of_subvectors),
       Field("number_of_blobs", self.number_of_blobs),
       Field("internal_data_type", QbgObject_as_i32(self.internal_data_type)),
       Field("data_type", QbgObject_as_i32(self.data_type)),
       Field("distance_type", QbgDistance_as_i32(self.distance_type)) >>

(***************************************************************************)
(* QbgBuildParams.                                                         *)
(***************************************************************************)
QbgBuildParams_default ==
    [hierarchical_clustering_init_mode |-> "KmeansPlusPlus",
     number_of_first_objects |-> 0,
     number_of_first_clusters |-> 0,
     number_of_second_objects |-> 0,
     number_of_second_clusters |-> 0,
     number_of_third_clusters |-> 0,
     number_of_objects |-> 1000,
     number_of_subvectors |-> 1,
     optimization_clustering_init_mode |-> "KmeansPlusPlus",
     rotation_iteration |-> 2000,
     subvector_iteration |-> 400,
     number_of_matrices |-> 3,
     rotation |-> TRUE,
     repositioning |-> FALSE]

QbgBuildParams_hierarchical_clustering_init_mode(self, clustering_init_mode) ==
    [self EXCEPT !.hierarchical_clustering_init_mode = clustering_init_mode]

QbgBuildParams_number_of_first_objects(self, number_of_first_objects) ==
    [self EXCEPT !.number_of_first_objects = number_of_first_objects]

QbgBuildParams_number_of_first_clusters(self, number_of_first_clusters) ==
    [self EXCEPT !.number_of_first_clusters = number_of_first_clusters]

\* A variant of QbgBuildParams_number_of_second_objects: it assigns the field
\* of the method it was copied from.
QbgBuildParams_number_of_second_objects_pasted(self, number_of_second_objects) ==
    [self EXCEPT !.number_of_first_objects = number_of_second_objects]

QbgBuildParams_number_of_second_objects(self, number_of_second_objects) ==
    [self EXCEPT !.number_of_second_objects = number_of_second_objects]

QbgBuildParams_number_of_second_clusters(self, number_of_second_clusters) ==
    [self EXCEPT !.number_of_second_clusters = number_of_second_clusters]

QbgBuildParams_number_of_third_clusters(self, number_of_third_clusters) ==
    [self EXCEPT !.number_of_third_clusters = number_of_third_clusters]

QbgBuildParams_number_of_objects(self, number_of_objects) ==
    [self EXCEPT !.number_of_objects = number_of_objects]

\* A variant of QbgBuildParams_number_of_subvectors: it also resets
\* number_of_objects.
QbgBuildParams_number_of_subvectors_resetting(self, number_of_subvectors) ==
    [self EXCEPT !.number_of_subvectors = number_of_subvectors,
                 !.number_of_objects = 1000]

QbgBuildParams_number_of_subvectors(self, number_of_subvectors) ==
    [self EXCEPT !.number_of_subvectors = number_of_subvectors]

QbgBuildParams_optimization_clustering_init_mode(self, clustering_init_mode) ==
    [self EXCEPT !.optimization_clustering_init_mode = clustering_init_mode]

QbgBuildParams_rotation_iteration(self, rotation_iteration) ==
    [self EXCEPT !.rotation_iteration = rotation_iteration]

QbgBuildParams_subvector_iteration(self, subvector_iteration) ==
    [self EXCEPT !.subvector_iteration = subvector_iteration]

QbgBuildParams_number_of_matrices(self, number_of_matrices) ==
    [self EXCEPT !.number_of_matrices = number_of_matrices]

QbgBuildParams_rotation(self, rotation) ==
    [self EXCEPT !.rotation = rotation]

QbgBuildParams_repositioning(self, repositioning) ==
    [self EXCEPT !.repositioning = repositioning]

QbgBuildParams_into_raw(self) ==
    << Field("hierarchical_clustering_init_mode", QbgClusteringInitMode_as_i32(self.hierarchical_clustering_init_mode)),
       Field("number_of_first_objects", self.number_of_first_objects),
       Field("number_of_first_clusters", self.number_of_first_clusters),
       Field("number_of_second_objects", self.number_of_second_objects),
       Field("number_of_second_clusters", self.number_of_second_clusters),
       Field("number_of_third_clusters", self.number_of_third_clusters),
       Field("number_of_objects", self.number_of_objects),
       Field("number_of_subvectors", self.number_of_subvectors),
       Field("optimization_clustering_init_mode", QbgClusteringInitMode_as_i32(self.optimization_clustering_init_mode)),
       Field("rotation_iteration", self.rotation_iteration),
       Field("subvector_iteration", self.subvector_iteration),
       Field("number_of_matrices", self.number_of_matrices),
       Field("rotation", self.rotation),
       Field("repositioning", self.repositioning) >>

\* #[derive(Clone)] on both structs: a field-by-field copy.
QbgConstructParams_clone(self) == self

(***************************************************************************)
(* Dispatch of a call, given as [name, arg], to the method it names.       *)
(***************************************************************************)
\* A chain of construction overrides in the caller: `?` (or unwrap) after the
\* fallible one, so a chain that met an Err stays that Err.
ConstructCall(self, call) ==
    CASE call.name = "extended_dimension" ->
            QbgConstructParams_extended_dimension(self, call.arg)
      [] call.name = "number_of_subvectors" ->
            Ok(QbgConstructParams_number_of_subvectors(self, call.arg))
      [] call.name = "number_of_blobs" ->
            Ok(QbgConstructParams_number_of_blobs(self, call.arg))
      [] call.name = "internal_data_type" ->
            Ok(QbgConstructParams_internal_data_type(self, call.arg))
      [] call.name = "distance_type" ->
            Ok(QbgConstructParams_distance_type(self, call.arg))

ConstructChain(result, call) ==
    IF result.ok THEN ConstructCall(result.value, call) ELSE result

BuildCall(self, call) ==
    CASE call.name = "hierarchical_clustering_init_mode" ->
            QbgBuildParams_hierarchical_clustering_init_mode(self, call.arg)
      [] call.name = "number_of_first_objects" ->
            QbgBuildParams_number_of_first_objects(self, call.arg)
      [] call.name = "number_of_first_clusters" ->
            QbgBuildParams_number_of_first_clusters(self, call.arg)
      [] call.name = "number_of_second_objects" ->
            QbgBuildParams_number_of_second_objects(self, call.arg)
      [] call.name = "number_of_second_clusters" ->
            QbgBuildParams_number_of_second_clusters(self, call.arg)
      [] call.name = "number_of_third_clusters" ->
            QbgBuildParams_number_of_third_clusters(self, call.arg)
      [] call.name = "number_of_objects" ->
            QbgBuildParams_number_of_objects(self, call.arg)
      [] call.name = "number_of_subvectors" ->
            QbgBuildParams_number_of_subvectors(self, call.arg)
      [] call.name = "optimization_clustering_init_mode" ->
            QbgBuildParams_optimization_clustering_init_mode(self, call.arg)
      [] call.name = "rotation_iteration" ->
            QbgBuildParams_rotation_iteration(self, call.arg)
      [] call.name = "subvector_iteration" ->
            QbgBuildParams_subvector_iteration(self, call.arg)
      [] call.name = "number_of_matrices" ->
            QbgBuildParams_number_of_matrices(self, call.arg)
      [] call.name = "rotation" ->
            QbgBuildParams_rotation(self, call.arg)
      [] call.name = "repositioning" ->
            QbgBuildParams_repositioning(self, call.arg)

(***************************************************************************)
(* Inputs.                                                                 *)
(***************************************************************************)
DimInputs ==
    {0, 3, 16, 17, 32, 512, 513, usize_MAX - 15, usize_MAX - 14, usize_MAX}
ExtInputs == {0, 15, 16, 32, 528, usize_MAX - 15, usize_MAX}
UsizeInputs == {0, 1, usize_MAX}
CodeInputs == (0 - MaxCode) .. MaxCode

ConstructFields ==
    {"extended_dimension", "dimension", "number_of_subvectors", "number_of_blobs",
     "internal_data_type", "data_type", "distance_type"}

ConstructCalls ==
    [name : {"extended_dimension"}, arg : ExtInputs]
    \cup [name : {"number_of_subvectors", "number_of_blobs"}, arg : UsizeInputs]
    \cup [name : {"internal_data_type"}, arg : QbgObject]
    \cup [name : {"distance_type"}, arg : QbgDistance]

BuildModeFields ==
    {"hierarchical_clustering_init_mode", "optimization_clustering_init_mode"}
BuildUsizeFields ==
    {"number_of_first_objects", "number_of_first_clusters",
     "number_of_second_objects", "number_of_second_clusters",
     "number_of_third_clusters", "number_of_objects", "number_of_subvectors",
     "rotation_iteration", "subvector_iteration", "number_of_matrices"}
BuildBoolFields == {"rotation", "repositioning"}
BuildFields == BuildModeFields \cup BuildUsizeFields \cup BuildBoolFields

BuildCalls ==
    [name : BuildModeFields, arg : QbgClusteringInitMode]
    \cup [name : BuildUsizeFields, arg : UsizeInputs]
    \cup [name : BuildBoolFields, arg : BOOLEAN]

(***************************************************************************)
(* State: one caller that makes one parameter object, overrides fields and *)
(* finalizes it, or decodes and encodes enum codes.                        *)
(***************************************************************************)
VARIABLES
    pc,      \* where the caller is: start, construct, build, rejected,
             \* panicked, finalized, codes
    cp,      \* the caller's QbgConstructParams binding, None once moved out
    bp,      \* the caller's QbgBuildParams binding, None once moved out
    saved,   \* a clone of cp the caller kept, None if it kept none
    raw,     \* the finalized record, None before into_raw
    calls,   \* number of override / clone calls made so far
    last,    \* the last call: the type it is on, its name, argument, the
             \* receiver it consumed and what it returned
    log      \* per field: whether an override set it, and the value given
             \* to it last (at creation, or by the last override of it)

vars == <<pc, cp, bp, saved, raw, calls, last, log>>

Call(on, op, arg, pre, ret) ==
    [on |-> on, op |-> op, arg |-> arg, pre |-> pre, ret |-> ret]

Init ==
    /\ pc = "start"
    /\ cp = None
    /\ bp = None
    /\ saved = None
    /\ raw = None
    /\ calls = 0
    /\ last = Call("none", "none", None, None, None)
    /\ log = None

\* let params = QbgConstructParams::<T>::dimension(d);
Dimension ==
    /\ pc = "start"
    /\ \E T \in ElementTypes, d \in DimInputs, overflow_checks \in BOOLEAN :
         LET r == QbgConstructParams_dimension(T, d, overflow_checks)
         IN  /\ last' = Call("QbgConstructParams", "dimension",
                             [T |-> T, dimension |-> d], None, r)
             /\ IF r.panic
                THEN /\ pc' = "panicked"
                     /\ UNCHANGED <<cp, log>>
                ELSE /\ pc' = "construct"
                     /\ cp' = r.value
                     /\ log' = [f \in ConstructFields |->
                                  [set |-> FALSE, val |-> r.value[f]]]
    /\ UNCHANGED <<bp, saved, raw, calls>>

\* A variant of ExtendedDimension: the method borrows the builder (&mut self),
\* so the caller keeps it when the override is rejected.
ExtendedDimension_borrowing ==
    /\ pc = "construct"
    /\ calls < MaxCalls
    /\ \E v \in ExtInputs :
         LET r == QbgConstructParams_extended_dimension(cp, v)
         IN  /\ last' = Call("QbgConstructParams", "extended_dimension", v, cp, r)
             /\ IF r.ok
                THEN /\ cp' = r.value
                     /\ pc' = "construct"
                     /\ log' = [log EXCEPT !["extended_dimension"] =
                                  [set |-> TRUE, val |-> v]]
                ELSE /\ cp' = cp
                     /\ pc' = "rejected"
                     /\ UNCHANGED log
    /\ calls' = calls + 1
    /\ UNCHANGED <<bp, saved, raw>>

\* let params = params.extended_dimension(v)?;   params is moved into the
\* call; on Err only the error comes back.
ExtendedDimension ==
    /\ pc = "construct"
    /\ calls < MaxCalls
    /\ \E v \in ExtInputs :
         LET r == QbgConstructParams_extended_dimension(cp, v)
         IN  /\ last' = Call("QbgConstructParams", "extended_dimension", v, cp, r)
             /\ IF r.ok
                THEN /\ cp' = r.value
                     /\ pc' = "construct"
                     /\ log' = [log EXCEPT !["extended_dimension"] =
                                  [set |-> TRUE, val |-> v]]
                ELSE /\ cp' = None
                     /\ pc' = "rejected"
                     /\ UNCHANGED log
    /\ calls' = calls + 1
    /\ UNCHANGED <<bp, saved, raw>>

\* let params = params.number_of_subvectors(v);
NumberOfSubvectors ==
    /\ pc = "construct"
    /\ calls < MaxCalls
    /\ \E v \in UsizeInputs :
         /\ cp' = QbgConstructParams_number_of_subvectors(cp, v)
         /\ last' = Call("QbgConstructParams", "number_of_subvectors", v, cp, cp')
         /\ log' = [log EXCEPT !["number_of_subvectors"] = [set |-> TRUE, val |-> v]]
    /\ calls' = calls + 1
    /\ UNCHANGED <<pc, bp, saved, raw>>

\* let params = params.number_of_blobs(v);
NumberOfBlobs ==
    /\ pc = "construct"
    /\ calls < MaxCalls
    /\ \E v \in UsizeInputs :
         /\ cp' = QbgConstructParams_number_of_blobs(cp, v)
         /\ last' = Call("QbgConstructParams", "number_of_blobs", v, cp, cp')
         /\ log' = [log EXCEPT !["number_of_blobs"] = [set |-> TRUE, val |-> v]]
    /\ calls' = calls + 1
    /\ UNCHANGED <<pc, bp, saved, raw>>

\* let params = params.internal_data_type(v);
InternalDataType ==
    /\ pc = "construct"
    /\ calls < MaxCalls
    /\ \E v \in QbgObject :
         /\ cp' = QbgConstructParams_internal_data_type(cp, v)
         /\ last' = Call("QbgConstructParams", "internal_data_type", v, cp, cp')
         /\ log' = [log EXCEPT !["internal_data_type"] = [set |-> TRUE, val |-> v]]
    /\ calls' = calls + 1
    /\ UNCHANGED <<pc, bp, saved, raw>>

\* let params = params.distance_type(v);
DistanceType ==
    /\ pc = "construct"
    /\ calls < MaxCalls
    /\ \E v \in QbgDistance :
         /\ cp' = QbgConstructParams_distance_type(cp, v)
         /\ last' = Call("QbgConstructParams", "distance_type", v, cp, cp')
         /\ log' = [log EXCEPT !["distance_type"] = [set |-> TRUE, val |-> v]]
    /\ calls' = calls + 1
    /\ UNCHANGED <<pc, bp, saved, raw>>

\* let saved = params.clone();
Clone ==
    /\ pc = "construct"
    /\ calls < MaxCalls
    /\ saved' = QbgConstructParams_clone(cp)
    /\ last' = Call("QbgConstructParams", "clone", None, cp, saved')
    /\ calls' = calls + 1
    /\ UNCHANGED <<pc, cp, bp, raw, log>>

\* let raw = unsafe { params.into_raw() };
ConstructIntoRaw ==
    /\ pc = "construct"
    /\ raw' = QbgConstructParams_into_raw(cp)
    /\ last' = Call("QbgConstructParams", "into_raw", None, cp, raw')
    /\ cp' = None
    /\ pc' = "finalized"
    /\ UNCHANGED <<bp, saved, calls, log>>

\* let params = QbgBuildParams::default();
Default ==
    /\ pc = "start"
    /\ bp' = QbgBuildParams_default
    /\ last' = Call("QbgBuildParams", "default", None, None, bp')
    /\ log' = [f \in BuildFields |-> [set |-> FALSE, val |-> bp'[f]]]
    /\ pc' = "build"
    /\ UNCHANGED <<cp, saved, raw, calls>>

\* let params = params.hierarchical_clustering_init_mode(v);
BuildHierarchicalClusteringInitMode ==
    /\ pc = "build"
    /\ calls < MaxCalls
    /\ \E v \in QbgClusteringInitMode :
         /\ bp' = QbgBuildParams_hierarchical_clustering_init_mode(bp, v)
         /\ last' = Call("QbgBuildParams", "hierarchical_clustering_init_mode", v, bp, bp')
         /\ log' = [log EXCEPT !["hierarchical_clustering_init_mode"] = [set |-> TRUE, val |-> v]]
    /\ calls' = calls + 1
    /\ UNCHANGED <<pc, cp, saved, raw>>

\* let params = params.number_of_first_objects(v);
BuildNumberOfFirstObjects ==
    /\ pc = "build"
    /\ calls < MaxCalls
    /\ \E v \in UsizeInputs :
         /\ bp' = QbgBuildParams_number_of_first_objects(bp, v)
         /\ last' = Call("QbgBuildParams", "number_of_first_objects", v, bp, bp')
         /\ log' = [log EXCEPT !["number_of_first_objects"] = [set |-> TRUE, val |-> v]]
    /\ calls' = calls + 1
    /\ UNCHANGED <<pc, cp, saved, raw>>

\* let params = params.number_of_first_clusters(v);
BuildNumberOfFirstClusters ==
    /\ pc = "build"
    /\ calls < MaxCalls
    /\ \E v \in UsizeInputs :
         /\ bp' = QbgBuildParams_number_of_first_clusters(bp, v)
         /\ last' = Call("QbgBuildParams", "number_of_first_clusters", v, bp, bp')
         /\ log' = [log EXCEPT !["number_of_first_clusters"] = [set |-> TRUE, val |-> v]]
    /\ calls' = calls + 1
    /\ UNCHANGED <<pc, cp, saved, raw>>

\* let params = params.number_of_second_objects(v);
BuildNumberOfSecondObjects ==
    /\ pc = "build"
    /\ calls < MaxCalls
    /\ \E v \in UsizeInputs :
         /\ bp' = QbgBuildParams_number_of_second_objects(bp, v)
         /\ last' = Call("QbgBuildParams", "number_of_second_objects", v, bp, bp')
         /\ log' = [log EXCEPT !["number_of_second_objects"] = [set |-> TRUE, val |-> v]]
    /\ calls' = calls + 1
    /\ UNCHANGED <<pc, cp, saved, raw>>

\* let params = params.number_of_second_clusters(v);
BuildNumberOfSecondClusters ==
    /\ pc = "build"
    /\ calls < MaxCalls
    /\ \E v \in UsizeInputs :
         /\ bp' = QbgBuildParams_number_of_second_clusters(bp, v)
         /\ last' = Call("QbgBuildParams", "number_of_second_clusters", v, bp, bp')
         /\ log' = [log EXCEPT !["number_of_second_clusters"] = [set |-> TRUE, val |-> v]]
    /\ calls' = calls + 1
    /\ UNCHANGED <<pc, cp, saved, raw>>

\* let params = params.number_of_third_clusters(v);
BuildNumberOfThirdClusters ==
    /\ pc = "build"
    /\ calls < MaxCalls
    /\ \E v \in UsizeInputs :
         /\ bp' = QbgBuildParams_number_of_third_clusters(bp, v)
         /\ last' = Call("QbgBuildParams", "number_of_third_clusters", v, bp, bp')
         /\ log' = [log EXCEPT !["number_of_third_clusters"] = [set |-> TRUE, val |-> v]]
    /\ calls' = calls + 1
    /\ UNCHANGED <<pc, cp, saved, raw>>

\* let params = params.number_of_objects(v);
BuildNumberOfObjects ==
    /\ pc = "build"
    /\ calls < MaxCalls
    /\ \E v \in UsizeInputs :
         /\ bp' = QbgBuildParams_number_of_objects(bp, v)
         /\ last' = Call("QbgBuildParams", "number_of_objects", v, bp, bp')
         /\ log' = [log EXCEPT !["number_of_objects"] = [set |-> TRUE, val |-> v]]
    /\ calls' = calls + 1
    /\ UNCHANGED <<pc, cp, saved, raw>>

\* let params = params.number_of_subvectors(v);
BuildNumberOfSubvectors ==
    /\ pc = "build"
    /\ calls < MaxCalls
    /\ \E v \in UsizeInputs :
         /\ bp' = QbgBuildParams_number_of_subvectors(bp, v)
         /\ last' = Call("QbgBuildParams", "number_of_subvectors", v, bp, bp')
         /\ log' = [log EXCEPT !["number_of_subvectors"] = [set |-> TRUE, val |-> v]]
    /\ calls' = calls + 1
    /\ UNCHANGED <<pc, cp, saved, raw>>

\* let params = params.optimization_clustering_init_mode(v);
BuildOptimizationClusteringInitMode ==
    /\ pc = "build"
    /\ calls < MaxCalls
    /\ \E v \in QbgClusteringInitMode :
         /\ bp' = QbgBuildParams_optimization_clustering_init_mode(bp, v)
         /\ last' = Call("QbgBuildParams", "optimization_clustering_init_mode", v, bp, bp')
         /\ log' = [log EXCEPT !["optimization_clustering_init_mode"] = [set |-> TRUE, val |-> v]]
    /\ calls' = calls + 1
    /\ UNCHANGED <<pc, cp, saved, raw>>

\* let params = params.rotation_iteration(v);
BuildRotationIteration ==
    /\ pc = "build"
    /\ calls < MaxCalls
    /\ \E v \in UsizeInputs :
         /\ bp' = QbgBuildParams_rotation_iteration(bp, v)
         /\ last' = Call("QbgBuildParams", "rotation_iteration", v, bp, bp')
         /\ log' = [log EXCEPT !["rotation_iteration"] = [set |-> TRUE, val |-> v]]
    /\ calls' = calls + 1
    /\ UNCHANGED <<pc, cp, saved, raw>>

\* let params = params.subvector_iteration(v);
BuildSubvectorIteration ==
    /\ pc = "build"
    /\ calls < MaxCalls
    /\ \E v \in UsizeInputs :
         /\ bp' = QbgBuildParams_subvector_iteration(bp, v)
         /\ last' = Call("QbgBuildParams", "subvector_iteration", v, bp, bp')
         /\ log' = [log EXCEPT !["subvector_iteration"] = [set |-> TRUE, val |-> v]]
    /\ calls' = calls + 1
    /\ UNCHANGED <<pc, cp, saved, raw>>

\* let params = params.number_of_matrices(v);
BuildNumberOfMatrices ==
    /\ pc = "build"
    /\ calls < MaxCalls
    /\ \E v \in UsizeInputs :
         /\ bp' = QbgBuildParams_number_of_matrices(bp, v)
         /\ last' = Call("QbgBuildParams", "number_of_matrices", v, bp, bp')
         /\ log' = [log EXCEPT !["number_of_matrices"] = [set |-> TRUE, val |-> v]]
    /\ calls' = calls + 1
    /\ UNCHANGED <<pc, cp, saved, raw>>

\* let params = params.rotation(v);
BuildRotation ==
    /\ pc = "build"
    /\ calls < MaxCalls
    /\ \E v \in BOOLEAN :
         /\ bp' = QbgBuildParams_rotation(bp, v)
         /\ last' = Call("QbgBuildParams", "rotation", v, bp, bp')
         /\ log' = [log EXCEPT !["rotation"] = [set |-> TRUE, val |-> v]]
    /\ calls' = calls + 1
    /\ UNCHANGED <<pc, cp, saved, raw>>

\* let params = params.repositioning(v);
BuildRepositioning ==
    /\ pc = "build"
    /\ calls < MaxCalls
    /\ \E v \in BOOLEAN :
         /\ bp' = QbgBuildParams_repositioning(bp, v)
         /\ last' = Call("QbgBuildParams", "repositioning", v, bp, bp')
         /\ log' = [log EXCEPT !["repositioning"] = [set |-> TRUE, val |-> v]]
    /\ calls' = calls + 1
    /\ UNCHANGED <<pc, cp, saved, raw>>

\* let raw = unsafe { params.into_raw() };
BuildIntoRaw ==
    /\ pc = "build"
    /\ raw' = QbgBuildParams_into_raw(bp)
    /\ last' = Call("QbgBuildParams", "into_raw", None, bp, raw')
    /\ bp' = None
    /\ pc' = "finalized"
    /\ UNCHANGED <<cp, saved, calls, log>>

\* let r = <enum>::try_from(n);
TryFrom ==
    /\ pc \in {"start", "codes"}
    /\ \E kind \in EnumKinds, n \in CodeInputs :
         last' = Call(kind, "try_from", n, None, try_from(kind, n))
    /\ pc' = "codes"
    /\ UNCHANGED <<cp, bp, saved, raw, calls, log>>

\* let n = v as i32;
AsI32 ==
    /\ pc \in {"start", "codes"}
    /\ \E kind \in EnumKinds :
         \E v \in Variants(kind) :
            last' = Call(kind, "as_i32", v, None, as_i32(kind, v))
    /\ pc' = "codes"
    /\ UNCHANGED <<cp, bp, saved, raw, calls, log>>

Next ==
    \/ Dimension
    \/ ExtendedDimension
    \/ NumberOfSubvectors
    \/ NumberOfBlobs
    \/ InternalDataType
    \/ DistanceType
    \/ Clone
    \/ ConstructIntoRaw
    \/ Default
    \/ BuildHierarchicalClusteringInitMode
    \/ BuildNumberOfFirstObjects
    \/ BuildNumberOfFirstClusters
    \/ BuildNumberOfSecondObjects
    \/ BuildNumberOfSecondClusters
    \/ BuildNumberOfThirdClusters
    \/ BuildNumberOfObjects
    \/ BuildNumberOfSubvectors
    \/ BuildOptimizationClusteringInitMode
    \/ BuildRotationIteration
    \/ BuildSubvectorIteration
    \/ BuildNumberOfMatrices
    \/ BuildRotation
    \/ BuildRepositioning
    \/ BuildIntoRaw
    \/ TryFrom
    \/ AsI32

Spec == Init /\ [][Next]_vars

(***************************************************************************)
(* What the specification says, written independently of the definitions   *)
(* above: the documented codes, tags and record orders.                    *)
(***************************************************************************)
DocumentedCode ==
    [Uint8 |-> 0, Float |-> 1, Float16 |-> 2, L2 |-> 1,
     Head |-> 0, Random |-> 1, KmeansPlusPlus |-> 2, RandomFixedSeed |-> 3,
     KmeansPlusPlusFixedSeed |-> 4, Best |-> 5]

DocumentedTag == [u8 |-> "Uint8", f32 |-> "Float", f16 |-> "Float16"]

DocumentedValidCodes(kind) ==
    CASE kind = "QbgObject" -> {0, 1, 2}
      [] kind = "QbgDistance" -> {1}
      [] kind = "QbgClusteringInitMode" -> 0 .. 5

IsConstructCall == last.on = "QbgConstructParams"
IsBuildCall == last.on = "QbgBuildParams"
ConstructOverrides ==
    {"extended_dimension", "number_of_subvectors", "number_of_blobs",
     "internal_data_type", "distance_type"}
HasBuilder == pc = "construct"

\* C1: every construction builder the caller holds, and every one that reaches
\* into_raw, has extended_dimension % 16 = 0 and extended_dimension >= dimension,
\* for every usize dimension given to dimension().
C1_ExtendedDimensionInvariant ==
    /\ HasBuilder =>
          /\ cp.extended_dimension % 16 = 0
          /\ cp.extended_dimension >= cp.dimension
    /\ (IsConstructCall /\ last.op = "into_raw") =>
          /\ last.pre.extended_dimension % 16 = 0
          /\ last.pre.extended_dimension >= last.pre.dimension

\* C2: extended_dimension(v) returns Ok, with extended_dimension set to v, if and
\* only if v % 16 = 0 and v >= dimension; otherwise it returns the
\* invalid-configuration error naming v. The decision reads only v and the
\* builder's dimension: it is the same for every value of the other fields.
\* On a builder just created the same is checked for every usize candidate.
C2_ExtendedDimensionAcceptsIff ==
  /\ (HasBuilder /\ calls = 0) =>
        \A v \in 0 .. usize_MAX :
           LET r == QbgConstructParams_extended_dimension(cp, v)
           IN  /\ r.ok <=> (v % 16 = 0 /\ v >= cp.dimension)
               /\ r.ok => r.value = [cp EXCEPT !.extended_dimension = v]
               /\ ~r.ok => r.shown = v
  /\ (IsConstructCall /\ last.op = "extended_dimension") =>
        LET v == last.arg
            self == last.pre
        IN  /\ last.ret.ok <=> (v % 16 = 0 /\ v >= self.dimension)
            /\ last.ret.ok =>
                  /\ last.ret.value = [self EXCEPT !.extended_dimension = v]
                  /\ cp = last.ret.value
            /\ ~last.ret.ok =>
                  /\ DOMAIN last.ret = {"ok", "message", "shown"}
                  /\ last.ret.shown = v
                  /\ last.ret.message =
                       "Invalid extended_dimension: {}, must be a multiple of 16 greater or equal to dimension"
            /\ \A e \in ExtInputs, n \in UsizeInputs, b \in UsizeInputs,
                  t \in QbgObject :
                  QbgConstructParams_extended_dimension(
                      [self EXCEPT !.extended_dimension = e,
                                   !.number_of_subvectors = n,
                                   !.number_of_blobs = b,
                                   !.internal_data_type = t], v).ok
                  = last.ret.ok

\* C2 witness: dimension = 16 and the candidate 32 is accepted.
C2_Witness ==
    /\ IsConstructCall /\ last.op = "extended_dimension"
    /\ last.pre.dimension = 16 /\ last.arg = 32
    /\ last.ret.ok /\ cp.extended_dimension = 32

SmallestMultipleOf16AtLeast(d) == CHOOSE m \in d .. (d + 15) : m % 16 = 0

\* C4: for every positive usize d, dimension(d) completes (no error, no panic)
\* and sets extended_dimension to the smallest multiple of 16 that is >= d;
\* for d = 0 it yields 0.
C4_DimensionDerivesSmallestMultiple ==
    (IsConstructCall /\ last.op = "dimension") =>
        /\ ~last.ret.panic
        /\ last.ret.value.extended_dimension
             = SmallestMultipleOf16AtLeast(last.arg.dimension)

\* The value given last to a field, as the finalized record must show it: an
\* enumerated tag by its documented code, anything else as it is.
LastSet(f) ==
    IF f \in {"internal_data_type", "data_type", "distance_type",
              "hierarchical_clustering_init_mode",
              "optimization_clustering_init_mode"}
    THEN DocumentedCode[log[f].val]
    ELSE log[f].val

DocumentedConstructOrder ==
    << "extended_dimension", "dimension", "number_of_subvectors",
       "number_of_blobs", "internal_data_type", "data_type", "distance_type" >>

DocumentedBuildOrder ==
    << "hierarchical_clustering_init_mode", "number_of_first_objects",
       "number_of_first_clusters", "number_of_second_objects",
       "number_of_second_clusters", "number_of_third_clusters",
       "number_of_objects", "number_of_subvectors",
       "optimization_clustering_init_mode", "rotation_iteration",
       "subvector_iteration", "number_of_matrices", "rotation",
       "repositioning" >>

DocumentedRecord(order) ==
    [i \in 1 .. Len(order) |-> [field |-> order[i], value |-> LastSet(order[i])]]

\* C5: into_raw of either builder validates nothing and cannot fail (it is
\* possible whenever the caller holds a builder), and the finalized record
\* lists the documented fields in the documented order, each with the value
\* given last to that field (at creation or by its last override), enumerated
\* tags as their integer codes.
C5_IntoRawCopiesLastSetValues ==
    /\ pc = "construct" => ENABLED ConstructIntoRaw
    /\ pc = "build" => ENABLED BuildIntoRaw
    /\ (IsConstructCall /\ last.op = "into_raw") =>
          /\ pc = "finalized"
          /\ raw = DocumentedRecord(DocumentedConstructOrder)
    /\ (IsBuildCall /\ last.op = "into_raw") =>
          /\ pc = "finalized"
          /\ raw = DocumentedRecord(DocumentedBuildOrder)

\* C5 witness: a construction record finalized after extended_dimension and
\* internal_data_type were overridden.
C5_Witness ==
    /\ pc = "finalized"
    /\ IsConstructCall
    /\ log["extended_dimension"].set
    /\ log["internal_data_type"].set
    /\ Len(raw) = 7
    /\ raw[1].value = log["extended_dimension"].val
    /\ raw[1].value # raw[2].value

\* C6: QbgBuildParams::default() has the documented values; every build
\* override is possible on every instance with every argument, sets its own
\* field to the argument and leaves every other field as it was.
C6_BuildDefaultsAndFrame ==
    /\ (IsBuildCall /\ last.op = "default") =>
          bp = [hierarchical_clustering_init_mode |-> "KmeansPlusPlus",
                number_of_first_objects |-> 0,
                number_of_first_clusters |-> 0,
                number_of_second_objects |-> 0,
                number_of_second_clusters |-> 0,
                number_of_third_clusters |-> 0,
                number_of_objects |-> 1000,
                number_of_subvectors |-> 1,
                optimization_clustering_init_mode |-> "KmeansPlusPlus",
                rotation_iteration |-> 2000,
                subvector_iteration |-> 400,
                number_of_matrices |-> 3,
                rotation |-> TRUE,
                repositioning |-> FALSE]
    /\ (IsBuildCall /\ last.op \in BuildFields) =>
          /\ DOMAIN bp = BuildFields
          /\ bp[last.op] = last.arg
          /\ \A f \in BuildFields \ {last.op} : bp[f] = last.pre[f]
    /\ (pc = "build" /\ calls < MaxCalls) =>
          /\ ENABLED BuildHierarchicalClusteringInitMode
          /\ ENABLED BuildNumberOfFirstObjects
          /\ ENABLED BuildNumberOfFirstClusters
          /\ ENABLED BuildNumberOfSecondObjects
          /\ ENABLED BuildNumberOfSecondClusters
          /\ ENABLED BuildNumberOfThirdClusters
          /\ ENABLED BuildNumberOfObjects
          /\ ENABLED BuildNumberOfSubvectors
          /\ ENABLED BuildOptimizationClusteringInitMode
          /\ ENABLED BuildRotationIteration
          /\ ENABLED BuildSubvectorIteration
          /\ ENABLED BuildNumberOfMatrices
          /\ ENABLED BuildRotation
          /\ ENABLED BuildRepositioning

\* C6 witness: number_of_subvectors overridden on an instance whose
\* number_of_objects had been overridden before.
C6_Witness ==
    /\ IsBuildCall
    /\ last.op = "number_of_subvectors"
    /\ last.arg = 0
    /\ bp.number_of_subvectors = 0
    /\ last.pre.number_of_subvectors = 1
    /\ bp.number_of_objects = 1
    /\ last.pre.number_of_objects = 1

\* C7: try_from succeeds exactly on the documented codes (QbgObject 0..2,
\* QbgDistance 1, QbgClusteringInitMode 0..5) and fails with the
\* unrecognized-code error, naming no variant, on every other integer;
\* decoding then encoding gives the code back, encoding then decoding gives
\* the variant back.
C7_CodesRoundTrip ==
    /\ last.op = "try_from" =>
          /\ last.ret.ok <=> last.arg \in DocumentedValidCodes(last.on)
          /\ last.ret.ok =>
                /\ last.ret.value \in Variants(last.on)
                /\ as_i32(last.on, last.ret.value) = last.arg
                /\ DocumentedCode[last.ret.value] = last.arg
          /\ ~last.ret.ok =>
                /\ DOMAIN last.ret = {"ok", "number"}
                /\ last.ret.number = last.arg
    /\ last.op = "as_i32" =>
          /\ last.ret = DocumentedCode[last.arg]
          /\ try_from(last.on, last.ret) = Ok(last.arg)

\* C7 witness: decoding 0 as a QbgDistance fails.
C7_Witness ==
    /\ last.op = "try_from"
    /\ last.on = "QbgDistance"
    /\ last.arg = 0
    /\ ~last.ret.ok

\* C8: as_obj is a bijection from the three element representations onto the
\* three tags, u8 -> Uint8 (0), f32 -> Float (1), f16 -> Float16 (2), and a
\* builder created for T has data_type and internal_data_type equal to T's tag.
C8_ElementTagBijection ==
    /\ \A T \in ElementTypes :
          /\ as_obj(T) = DocumentedTag[T]
          /\ QbgObject_as_i32(as_obj(T)) = DocumentedCode[DocumentedTag[T]]
    /\ \A T1, T2 \in ElementTypes : as_obj(T1) = as_obj(T2) => T1 = T2
    /\ {as_obj(T) : T \in ElementTypes} = QbgObject
    /\ (IsConstructCall /\ last.op = "dimension" /\ ~last.ret.panic) =>
          /\ cp.data_type = DocumentedTag[last.arg.T]
          /\ cp.internal_data_type = DocumentedTag[last.arg.T]
          /\ cp.marker = last.arg.T

\* C8 witness: a builder created for f16 records Float16 twice.
C8_Witness ==
    /\ IsConstructCall /\ last.op = "dimension"
    /\ last.arg.T = "f16"
    /\ cp.data_type = "Float16"
    /\ cp.internal_data_type = "Float16"

\* C9: on every builder made by dimension(d) for T and any successful
\* overrides, dimension is d and data_type is T's tag; an override changes
\* only its own field; a field never overridden has its creation value
\* (number_of_subvectors 1, number_of_blobs 0, distance_type L2,
\* internal_data_type T's tag, extended_dimension as derived at creation).
C9_ConstructFrame ==
    /\ (IsConstructCall /\ last.op = "dimension" /\ ~last.ret.panic) =>
          /\ cp.dimension = last.arg.dimension
          /\ log["dimension"].val = last.arg.dimension
    /\ HasBuilder =>
          /\ DOMAIN cp = ConstructFields \cup {"marker"}
          /\ cp.dimension = log["dimension"].val
          /\ cp.data_type = DocumentedTag[cp.marker]
          /\ ~log["number_of_subvectors"].set => cp.number_of_subvectors = 1
          /\ ~log["number_of_blobs"].set => cp.number_of_blobs = 0
          /\ ~log["distance_type"].set => cp.distance_type = "L2"
          /\ ~log["internal_data_type"].set =>
                cp.internal_data_type = DocumentedTag[cp.marker]
          /\ ~log["extended_dimension"].set =>
                cp.extended_dimension = log["extended_dimension"].val
    /\ (HasBuilder /\ IsConstructCall /\ last.op \in ConstructOverrides) =>
          /\ cp[last.op] = last.arg
          /\ \A f \in DOMAIN cp \ {last.op} : cp[f] = last.pre[f]

\* C9 witness: internal_data_type overridden to a tag other than T's, with
\* data_type and dimension as created.
C9_Witness ==
    /\ HasBuilder
    /\ IsConstructCall /\ last.op = "internal_data_type"
    /\ cp.internal_data_type # cp.data_type
    /\ cp.data_type = DocumentedTag[cp.marker]
    /\ cp.dimension = 513

\* The builder, or the error, the caller has after the last construction call.
ConstructOutcome == IF pc = "rejected" THEN last.ret ELSE Ok(cp)
LastCall == [name |-> last.op, arg |-> last.arg]

\* C10: overrides compose in any order. For the override just made and any
\* further override: on distinct fields, making them in the other order from
\* the same builder gives the same builder or the same error; on the same
\* field, the later argument is the one that stays.
C10_OverridesCommute ==
    /\ (IsConstructCall /\ last.op \in ConstructOverrides) =>
          \A c2 \in ConstructCalls :
             IF c2.name # last.op
             THEN ConstructChain(ConstructOutcome, c2)
                    = ConstructChain(ConstructCall(last.pre, c2), LastCall)
             ELSE ConstructOutcome.ok =>
                    ConstructChain(ConstructOutcome, c2)
                      = ConstructCall(last.pre, c2)
    /\ (IsBuildCall /\ last.op \in BuildFields) =>
          \A c2 \in BuildCalls :
             IF c2.name # last.op
             THEN BuildCall(bp, c2) = BuildCall(BuildCall(last.pre, c2), LastCall)
             ELSE BuildCall(bp, c2) = BuildCall(last.pre, c2)

\* C10 witness: a build instance with two different fields overridden.
C10_Witness ==
    /\ pc = "build"
    /\ IsBuildCall
    /\ last.op = "number_of_first_objects"
    /\ log["number_of_second_objects"].set
    /\ bp.number_of_first_objects = 1
    /\ bp.number_of_second_objects = usize_MAX

====
